---- MODULE Spec2Model ----
(***************************************************************************)
(* A model of ThankYou.py: the Flask site with a JSON-file view counter,   *)
(* JSON-backed honour/goodbyes pages, a Markdown diary listing, a catch-all*)
(* 404 redirect and IP-aware request logging.                              *)
(*                                                                         *)
(* Strings are TLA+ strings (TLC evaluates Len, \o and SubSeq on them), so *)
(* split/strip/startswith/endswith/replace and the decimal text of the     *)
(* counter are computed character by character, as Python computes them.   *)
(* An optional Python value (None or a str) is a sequence of length 0 or 1.*)
(***************************************************************************)
EXTENDS Integers, Sequences, FiniteSets, TLC

VARIABLES
    views_file,     \* Data/views.json: None (absent) or Some(text)
    honour_file,    \* Data/honour.json: None or Some(text)
    goodbyes_file,  \* Data/goodbyes.json: None or Some(text)
    diary_dir,      \* diaries/: None (absent) or Some(filename -> file), a
                    \*   file being Some(text) or None when it cannot be read
    log_count,      \* number of lines written to the log so far
    log_new,        \* the lines the latest handler appended, in order
    resp,           \* the latest response sent (NoResp before the first)
    pc,             \* per worker: where it is inside get_and_increment_views
    data,           \* per worker: the local `data` of get_and_increment_views
    fresh,          \* history: views.json was created by startup and only
                    \*   the program has touched it since
    ok_hits         \* history: hits of /api/views that did not return -1
                    \*   since views.json was last created by startup

vars == <<views_file, honour_file, goodbyes_file, diary_dir, log_count,
          log_new, resp, pc, data, fresh, ok_hits>>

(***************************************************************************)
(* Bounds of the model.                                                    *)
(***************************************************************************)
MaxLog == 4         \* requests are served while fewer lines are logged
MaxChain == 2       \* entries in a generated X-Forwarded-For chain
MaxFiles == 2       \* files in the diary directory
NumWorkers == 2     \* requests in flight in the interleaved specification
MaxProxied == 2     \* requests served in the proxy specification

(***************************************************************************)
(* Python values.                                                          *)
(***************************************************************************)
None == <<>>
Some(s) == <<s>>
\* Python truthiness of an optional str: None and "" are falsy.
Truthy(o) == o # None /\ o[1] # ""
\* Python's `a or b`: a when a is truthy, else b.
PyOr(a, b) == IF Truthy(a) THEN a ELSE b

(***************************************************************************)
(* str methods, on characters.                                             *)
(***************************************************************************)
CharAt(s, i) == SubSeq(s, i, i)
Whitespace == {" ", "\t"}

StartsWith(s, p) == Len(s) >= Len(p) /\ SubSeq(s, 1, Len(p)) = p
EndsWith(s, p) == Len(s) >= Len(p) /\ SubSeq(s, Len(s) - Len(p) + 1, Len(s)) = p

RECURSIVE LStrip(_)
LStrip(s) ==
    IF Len(s) > 0 /\ CharAt(s, 1) \in Whitespace
    THEN LStrip(SubSeq(s, 2, Len(s)))
    ELSE s
RECURSIVE RStrip(_)
RStrip(s) ==
    IF Len(s) > 0 /\ CharAt(s, Len(s)) \in Whitespace
    THEN RStrip(SubSeq(s, 1, Len(s) - 1))
    ELSE s
\* str.strip()
Strip(s) == RStrip(LStrip(s))

\* str.split(sep) for a one-character sep: always at least one piece.
RECURSIVE SplitFrom(_, _, _, _)
SplitFrom(s, sep, i, cur) ==
    IF i > Len(s) THEN <<cur>>
    ELSE IF CharAt(s, i) = sep
         THEN <<cur>> \o SplitFrom(s, sep, i + 1, "")
         ELSE SplitFrom(s, sep, i + 1, cur \o CharAt(s, i))
Split(s, sep) == SplitFrom(s, sep, 1, "")

\* str.replace(old, new): every non-overlapping occurrence, left to right.
RECURSIVE Replace(_, _, _)
Replace(s, old, new) ==
    IF Len(s) = 0 THEN ""
    ELSE IF StartsWith(s, old)
         THEN new \o Replace(SubSeq(s, Len(old) + 1, Len(s)), old, new)
         ELSE CharAt(s, 1) \o Replace(SubSeq(s, 2, Len(s)), old, new)

Digits == "0123456789"

\* str(n) for n >= 0.
RECURSIVE ToDecimal(_)
ToDecimal(n) ==
    IF n < 10 THEN CharAt(Digits, n + 1)
    ELSE ToDecimal(n \div 10) \o CharAt(Digits, (n % 10) + 1)

IsDigit(c) == \E i \in 1..Len(Digits) : CharAt(Digits, i) = c
DigitValue(c) == (CHOOSE i \in 1..Len(Digits) : CharAt(Digits, i) = c) - 1

\* A JSON non-negative integer literal: digits, no leading zero.
IsDecimal(s) ==
    /\ Len(s) > 0
    /\ \A i \in 1..Len(s) : IsDigit(CharAt(s, i))
    /\ (Len(s) > 1 => CharAt(s, 1) # "0")

RECURSIVE FromDecimal(_)
FromDecimal(s) ==
    IF Len(s) = 1 THEN DigitValue(s)
    ELSE 10 * FromDecimal(SubSeq(s, 1, Len(s) - 1)) + DigitValue(CharAt(s, Len(s)))

(***************************************************************************)
(* Requests: the three IP signals log_action reads.                        *)
(***************************************************************************)
Request(cf, xff, remote) == [cf |-> cf, xff |-> xff, remote |-> remote]

\* A request that reached the server directly: no proxy headers.
DirectRequest == Request(None, None, Some("203.0.113.7"))

\* Entries a forwarded-for chain is built from: private-range addresses,
\* a public one, a 172.x outside 172.16-31, padded entries, an empty one.
XffEntries == { "10.0.0.5", " 8.8.8.8", "172.32.0.1", "192.168.1.1 ", "" }

RECURSIVE Join(_)
Join(seq) ==
    IF Len(seq) = 1 THEN seq[1] ELSE seq[1] \o "," \o Join(Tail(seq))

XffChains ==
    { Join(c) : c \in UNION { [1..n -> XffEntries] : n \in 1..MaxChain } }

CfValues == { None, Some(""), Some("198.51.100.9") }

ProxyRequests ==
    { Request(cf, xff, Some("10.1.1.1")) :
        cf \in CfValues, xff \in {None} \cup { Some(x) : x \in XffChains } }

(***************************************************************************)
(* log_action.                                                             *)
(***************************************************************************)
PrivatePrefixes == { "10.", "172.", "192.168." }

\* Mutant: the 172 test narrowed to 172.16. - 172.31.
HasPrivatePrefixCidr(ip) ==
    \/ StartsWith(Strip(ip), "10.")
    \/ StartsWith(Strip(ip), "192.168.")
    \/ \E n \in 16..31 : StartsWith(Strip(ip), "172." \o ToDecimal(n) \o ".")

\* ip.strip().startswith(('10.', '172.', '192.168.'))
HasPrivatePrefix(ip) == \E p \in PrivatePrefixes : StartsWith(Strip(ip), p)

\* x_forwarded_for.split(",") if x_forwarded_for else []
IpChain(xff) == IF Truthy(xff) THEN Split(xff[1], ",") ELSE <<>>

\* next((ip.strip() for ip in ip_chain if not ...startswith(...)), None)
PublicIp(chain) ==
    LET hits == { i \in 1..Len(chain) : ~HasPrivatePrefix(chain[i]) }
    IN  IF hits = {} THEN None
        ELSE Some(Strip(chain[CHOOSE i \in hits : \A j \in hits : i <= j]))

\* Mutant: the forwarded-for chain consulted before the edge header.
RealIpForwardedFirst(req) ==
    PyOr(PyOr(PublicIp(IpChain(req.xff)), req.cf), req.remote)

\* real_ip = cf_ip or public_ip or request.remote_addr
RealIp(req) == PyOr(PyOr(req.cf, PublicIp(IpChain(req.xff))), req.remote)

\* The line logger.info writes for `action`.
InfoLine(action, req) ==
    [ level |-> "INFO", action |-> action, real_ip |-> RealIp(req),
      cf_ip |-> req.cf, xff |-> req.xff, remote |-> req.remote ]

\* The line logger.error writes.
ErrorLine(what) == [ level |-> "ERROR", error |-> what ]

(***************************************************************************)
(* Files.  A file is None (absent) or Some(text).                          *)
(***************************************************************************)
ViewsKey == "{\"total_views\": "

\* json.dump({"total_views": n}, f): the text written.
JsonDumpViews(n) == ViewsKey \o ToDecimal(n) \o "}"

\* json.load(f) on the counter file, for the documents the model meets:
\*   "decode_error"  JSONDecodeError (empty, garbage, data after the object)
\*   "list"          a JSON array
\*   "dict"          an object; total_views is None when the key is absent,
\*                   Some("null") for null, Some(n) for an integer
JsonLoadViews(text) ==
    IF text = "[]" THEN [kind |-> "list"]
    ELSE IF text = "{}" THEN [kind |-> "dict", has_key |-> FALSE, int |-> FALSE, n |-> 0]
    ELSE IF StartsWith(text, ViewsKey) /\ EndsWith(text, "}")
            /\ Len(text) > Len(ViewsKey) + 1
    THEN LET body == SubSeq(text, Len(ViewsKey) + 1, Len(text) - 1)
         IN  IF IsDecimal(body)
             THEN [kind |-> "dict", has_key |-> TRUE, int |-> TRUE, n |-> FromDecimal(body)]
             ELSE IF body = "null"
             THEN [kind |-> "dict", has_key |-> TRUE, int |-> FALSE, n |-> 0]
             ELSE [kind |-> "decode_error"]
    ELSE [kind |-> "decode_error"]

\* Mutant: a missing or null total_views counted from 0
\* (data.get("total_views") or 0).
IncrementableFromZero(doc) == doc.kind = "dict"

\* Whether json.load followed by data["total_views"] += 1 succeeds.
Incrementable(doc) == doc.kind = "dict" /\ doc.has_key /\ doc.int

\* data["total_views"] += 1
IncrementViews(n) == n + 1

\* Mutant: f.seek(0) left out, so the text lands after what was read.
WriteAtEnd(old, text) == old \o text

\* f.write(text) at offset 0 of a file opened "r+": the first Len(text)
\* characters are overwritten, the rest of the old text stays.
WriteAtStart(old, text) ==
    IF Len(old) > Len(text)
    THEN text \o SubSeq(old, Len(text) + 1, Len(old))
    ELSE text

\* f.truncate() with the position after the written text.
TruncateAt(content, pos) ==
    IF Len(content) > pos THEN SubSeq(content, 1, pos) ELSE content

\* Mutant: the value read is returned, not the value written.
GetAndIncrementViewsReturnsOld(file) ==
    IF file = None
    THEN [file |-> file, views |-> -1, error |-> TRUE]
    ELSE LET doc == JsonLoadViews(file[1])
         IN  IF ~(doc.kind = "dict" /\ doc.has_key /\ doc.int)
             THEN [file |-> file, views |-> -1, error |-> TRUE]
             ELSE [ file |-> Some(JsonDumpViews(doc.n + 1)),
                    views |-> doc.n, error |-> FALSE ]

\* get_and_increment_views, run without interruption.  The result is the
\* file afterwards, the value returned and whether logger.error was called.
GetAndIncrementViews(file) ==
    IF file = None
    THEN [file |-> file, views |-> -1, error |-> TRUE]
    ELSE LET doc == JsonLoadViews(file[1])
         IN  IF ~Incrementable(doc)
             THEN [file |-> file, views |-> -1, error |-> TRUE]
             ELSE LET n == IncrementViews(doc.n)
                      text == JsonDumpViews(n)
                  IN  [ file |-> Some(TruncateAt(WriteAtStart(file[1], text), Len(text))),
                        views |-> n, error |-> FALSE ]

\* The integer stored in the counter file; -1 when there is none.
StoredViews(file) ==
    IF file # None /\ Incrementable(JsonLoadViews(file[1]))
    THEN JsonLoadViews(file[1]).n
    ELSE -1

\* Counter documents found on disk at startup or put there from outside.
ViewsContents ==
    { JsonDumpViews(0), JsonDumpViews(9), "{}", "[]",
      "{\"total_views\": null}", "", "not json" }

\* honour.json / goodbyes.json: json.load for the documents the model meets.
OneEntry == "[{\"name\": \"Sam\"}]"
EntryContents == { "[]", OneEntry, "", "{\"name\": " }
JsonLoadEntries(text) ==
    IF text = "[]" THEN [ok |-> TRUE, entries |-> <<>>]
    ELSE IF text = OneEntry THEN [ok |-> TRUE, entries |-> <<[name |-> "Sam"]>>]
    ELSE [ok |-> FALSE, entries |-> <<>>]

\* try: open(path); entries = json.load(f)  except: entries = []
LoadEntries(file) ==
    IF file = None THEN [ok |-> FALSE, entries |-> <<>>]
    ELSE JsonLoadEntries(file[1])

\* Mutant: the default written whether or not the file exists.
EnsureFileAlways(file, default) == Some(default)

\* Module start: a data file is written with its default only when absent.
EnsureFile(file, default) == IF file = None THEN Some(default) ELSE file

(***************************************************************************)
(* The diary listing.                                                      *)
(***************************************************************************)
\* The characters of file names, in code-point order.
CodeOrder == "-./0123456789ABCDEFGHIJKLMNOPQRSTUVWXYZ_abcdefghijklmnopqrstuvwxyz"

\* The rank of a character in code-point order.
Ord(c) == CHOOSE i \in 1..Len(CodeOrder) : CharAt(CodeOrder, i) = c

\* a < b as Python compares str: by code point, a proper prefix first.
RECURSIVE StrLess(_, _)
StrLess(a, b) ==
    IF Len(b) = 0 THEN FALSE
    ELSE IF Len(a) = 0 THEN TRUE
    ELSE IF CharAt(a, 1) = CharAt(b, 1)
         THEN StrLess(SubSeq(a, 2, Len(a)), SubSeq(b, 2, Len(b)))
         ELSE Ord(CharAt(a, 1)) < Ord(CharAt(b, 1))

\* sorted(names, reverse=True)
RECURSIVE SortedDesc(_)
SortedDesc(names) ==
    IF names = {} THEN <<>>
    ELSE LET top == CHOOSE x \in names : \A y \in names : y = x \/ StrLess(y, x)
         IN  <<top>> \o SortedDesc(names \ {top})

\* markdown.markdown(text, ...): the external renderer, kept opaque.
Markdown(text) == "<p>" \o text \o "</p>"

\* "title": filename.replace(".md", "")
DiaryTitle(filename) == Replace(filename, ".md", "")

\* Mutant: a file that cannot be read is skipped and the listing goes on.
RECURSIVE BuildEntriesSkipUnreadable(_, _)
BuildEntriesSkipUnreadable(names, files) ==
    IF names = <<>> THEN [ok |-> TRUE, entries |-> <<>>]
    ELSE LET filename == Head(names)
             rest == BuildEntriesSkipUnreadable(Tail(names), files)
         IN  IF ~EndsWith(filename, ".md") \/ files[filename] = None THEN rest
             ELSE [ ok |-> TRUE,
                    entries |-> << [ title |-> Replace(filename, ".md", ""),
                                     content |-> "<p>" \o files[filename][1] \o "</p>" ] >>
                                \o rest.entries ]

\* The loop of diaries_page over the sorted names: ok is FALSE when an
\* open/read raised, and then nothing of the list is kept.
RECURSIVE BuildEntries(_, _)
BuildEntries(names, files) ==
    IF names = <<>> THEN [ok |-> TRUE, entries |-> <<>>]
    ELSE LET filename == Head(names)
             rest == BuildEntries(Tail(names), files)
         IN  IF ~EndsWith(filename, ".md") THEN rest
             ELSE IF files[filename] = None \/ ~rest.ok
             THEN [ok |-> FALSE, entries |-> <<>>]
             ELSE [ ok |-> TRUE,
                    entries |-> << [ title |-> DiaryTitle(filename),
                                     content |-> Markdown(files[filename][1]) ] >>
                                \o rest.entries ]

\* The try block of diaries_page up to the list of entries.
ListDiaries(dir) ==
    IF dir = None THEN [ok |-> FALSE, entries |-> <<>>]
    ELSE BuildEntries(SortedDesc(DOMAIN dir[1]), dir[1])

EmptyDir == Some([n \in {} |-> None])

DiaryNames ==
    { "2024-01-01.md", "2024-02-01.md", "notes.txt", "a.md.md", "todo.md.bak" }
DiaryTexts == { "# Day" }

(***************************************************************************)
(* Responses.                                                              *)
(***************************************************************************)
Response(path, status, kind, template, entries, views, location) ==
    [ path |-> path, status |-> status, kind |-> kind, template |-> template,
      entries |-> entries, views |-> views, location |-> location ]

NoResp == Response("", 0, "none", "", <<>>, None, "")
\* render_template(template, entries=entries)
Html(path, template, entries) == Response(path, 200, "html", template, entries, None, "")
\* jsonify({"total_views": views})
Json(path, views) == Response(path, 200, "json", "", <<>>, Some(views), "")
\* redirect(location)
Redirect(path, location) == Response(path, 302, "redirect", "", <<>>, None, location)
\* abort(500)
ServerError(path) == Response(path, 500, "error", "", <<>>, None, "")

\* The rules registered with @app.route.
UrlMap ==
    { "/", "/thankyou", "/why", "/honour", "/diaries", "/goodbyes",
      "/api/views", "/parkour", "/weekly", "/projects" }

\* Paths requested that may match no rule.
OtherPaths == { "/nope", "/thankyou/", "/api" }

Workers == 1..NumWorkers

(***************************************************************************)
(* State after construction: the module-level code has run on the files    *)
(* found on disk, creating those that were absent.                         *)
(***************************************************************************)
InitBase ==
    /\ honour_file = Some("[]")
    /\ goodbyes_file = Some("[]")
    /\ diary_dir = EmptyDir
    /\ log_count = 0
    /\ log_new = <<>>
    /\ resp = NoResp
    /\ pc = [w \in Workers |-> "idle"]
    /\ data = [w \in Workers |-> 0]
    /\ ok_hits = 0

Init ==
    /\ InitBase
    /\ \/ views_file = Some(JsonDumpViews(0)) /\ fresh = TRUE
       \/ \E c \in ViewsContents : views_file = Some(c) /\ fresh = FALSE

(***************************************************************************)
(* Handlers, each run without interruption (app.run(threaded=False)).      *)
(***************************************************************************)
files == <<views_file, honour_file, goodbyes_file, diary_dir>>
inflight == <<pc, data>>
history == <<fresh, ok_hits>>

CanServe == log_count < MaxLog

\* The handler appended `lines` to the log and returned `r`.
Respond(r, lines) ==
    /\ resp' = r
    /\ log_new' = lines
    /\ log_count' = log_count + Len(lines)

\* log_action(action); return render_template(template)
StaticPage(path, action, template, req) ==
    /\ CanServe
    /\ Respond(Html(path, template, <<>>), <<InfoLine(action, req)>>)
    /\ UNCHANGED <<files, inflight, history>>

home(req) == StaticPage("/", "Viewed Home Page", "home.html", req)
thank_you_page(req) == StaticPage("/thankyou", "Viewed Thank You Page", "thankyou.html", req)
why_page(req) == StaticPage("/why", "Viewed Why Page", "why.html", req)
parkour_page(req) == StaticPage("/parkour", "Viewed Parkour Page", "parkour.html", req)
weekly_page(req) == StaticPage("/weekly", "Viewed Weekly Page", "weekly.html", req)
projects_page(req) == StaticPage("/projects", "Viewed Projects Page", "projects.html", req)

\* Mutant: a load failure handled as diaries_page handles one: abort(500).
EntriesPageAborts(path, file, errmsg, action, template, req) ==
    LET r == LoadEntries(file)
    IN  IF r.ok
        THEN Respond(Html(path, template, r.entries), <<InfoLine(action, req)>>)
        ELSE Respond(ServerError(path), <<ErrorLine(errmsg)>>)

\* A page rendered from a JSON list file: honour_wall and goodbyes_page.
EntriesPage(path, file, errmsg, action, template, req) ==
    LET r == LoadEntries(file)
    IN  Respond(Html(path, template, r.entries),
                (IF r.ok THEN <<>> ELSE <<ErrorLine(errmsg)>>)
                    \o <<InfoLine(action, req)>>)

honour_wall(req) ==
    /\ CanServe
    /\ EntriesPage("/honour", honour_file, "Error loading honour.json",
                   "Viewed Honour Wall", "honour.html", req)
    /\ UNCHANGED <<files, inflight, history>>

goodbyes_page(req) ==
    /\ CanServe
    /\ EntriesPage("/goodbyes", goodbyes_file, "Error loading goodbyes.json",
                   "Viewed Goodbyes Page", "goodbyes.html", req)
    /\ UNCHANGED <<files, inflight, history>>

diaries_page(req) ==
    /\ CanServe
    /\ LET r == ListDiaries(diary_dir)
       IN  IF r.ok
           THEN Respond(Html("/diaries", "diaries.html", r.entries),
                        <<InfoLine("Viewed Diaries Page", req)>>)
           ELSE Respond(ServerError("/diaries"),
                        <<ErrorLine("Error loading diaries")>>)
    /\ UNCHANGED <<files, inflight, history>>

views_api(req) ==
    /\ CanServe
    /\ LET r == GetAndIncrementViews(views_file)
       IN  /\ views_file' = r.file
           /\ Respond(Json("/api/views", r.views),
                      (IF r.error THEN <<ErrorLine("Error updating views")>> ELSE <<>>)
                          \o <<InfoLine("Viewed /api/views", req)>>)
           /\ ok_hits' = IF fresh /\ r.views # -1 THEN ok_hits + 1 ELSE ok_hits
    /\ UNCHANGED <<honour_file, goodbyes_file, diary_dir, inflight, fresh>>

\* Mutant: the handler answers with a 404 body instead of redirecting.
page_not_found_body(path, req) ==
    /\ CanServe
    /\ path \notin UrlMap
    /\ Respond(Response(path, 404, "error", "", <<>>, None, ""),
               <<InfoLine("404 Redirect", req)>>)
    /\ UNCHANGED <<files, inflight, history>>

\* @app.errorhandler(404): a request whose path matches no rule.
page_not_found(path, req) ==
    /\ CanServe
    /\ path \notin UrlMap
    /\ Respond(Redirect(path, "/"), <<InfoLine("404 Redirect", req)>>)
    /\ UNCHANGED <<files, inflight, history>>

\* The process is started again: the module-level code runs on the files
\* now on disk; requests in flight are gone.
Startup ==
    /\ views_file' = EnsureFile(views_file, JsonDumpViews(0))
    /\ honour_file' = EnsureFile(honour_file, "[]")
    /\ goodbyes_file' = EnsureFile(goodbyes_file, "[]")
    /\ diary_dir' = IF diary_dir = None THEN EmptyDir ELSE diary_dir
    /\ fresh' = IF views_file = None THEN TRUE ELSE fresh
    /\ ok_hits' = IF views_file = None THEN 0 ELSE ok_hits
    /\ pc' = [w \in Workers |-> "idle"]
    /\ data' = [w \in Workers |-> 0]
    /\ UNCHANGED <<log_count, log_new, resp>>

(***************************************************************************)
(* The file system outside the program: files deleted or overwritten       *)
(* between requests.                                                       *)
(***************************************************************************)
EnvSetViews(f) ==
    /\ views_file' = f
    /\ fresh' = FALSE
    /\ ok_hits' = 0
    /\ UNCHANGED <<honour_file, goodbyes_file, diary_dir, log_count, log_new,
                   resp, inflight>>

EnvSetHonour(f) ==
    /\ honour_file' = f
    /\ UNCHANGED <<views_file, goodbyes_file, diary_dir, log_count, log_new,
                   resp, inflight, history>>

EnvSetGoodbyes(f) ==
    /\ goodbyes_file' = f
    /\ UNCHANGED <<views_file, honour_file, diary_dir, log_count, log_new,
                   resp, inflight, history>>

EnvPutDiary(name, f) ==
    /\ diary_dir # None
    /\ name \in DOMAIN diary_dir[1] \/ Cardinality(DOMAIN diary_dir[1]) < MaxFiles
    /\ diary_dir' = Some([n \in DOMAIN diary_dir[1] \cup {name} |->
                            IF n = name THEN f ELSE diary_dir[1][n]])
    /\ UNCHANGED <<views_file, honour_file, goodbyes_file, log_count, log_new,
                   resp, inflight, history>>

EnvRemoveDiary(name) ==
    /\ diary_dir # None
    /\ name \in DOMAIN diary_dir[1]
    /\ diary_dir' = Some([n \in DOMAIN diary_dir[1] \ {name} |-> diary_dir[1][n]])
    /\ UNCHANGED <<views_file, honour_file, goodbyes_file, log_count, log_new,
                   resp, inflight, history>>

EnvRemoveDiaryDir ==
    /\ diary_dir # None
    /\ diary_dir' = None
    /\ UNCHANGED <<views_file, honour_file, goodbyes_file, log_count, log_new,
                   resp, inflight, history>>

Optional(S) == {None} \cup { Some(x) : x \in S }

(***************************************************************************)
(* Spec: the site served one request at a time, its data files changing    *)
(* underneath it.                                                          *)
(***************************************************************************)
SiteRequests == { DirectRequest }

Next ==
    \/ \E req \in SiteRequests :
          \/ home(req)
          \/ thank_you_page(req)
          \/ why_page(req)
          \/ honour_wall(req)
          \/ diaries_page(req)
          \/ goodbyes_page(req)
          \/ views_api(req)
          \/ parkour_page(req)
          \/ weekly_page(req)
          \/ projects_page(req)
          \/ \E path \in OtherPaths : page_not_found(path, req)
    \/ Startup
    \/ \E f \in Optional(ViewsContents) : EnvSetViews(f)
    \/ \E f \in Optional(EntryContents) : EnvSetHonour(f)
    \/ \E f \in Optional(EntryContents) : EnvSetGoodbyes(f)

Spec == Init /\ [][Next]_vars

(***************************************************************************)
(* SpecIP: requests arriving through proxies, for log_action.              *)
(***************************************************************************)
\* Started with no counter file on disk.
InitFresh ==
    /\ InitBase
    /\ views_file = Some(JsonDumpViews(0))
    /\ fresh = TRUE

NextIP ==
    \E req \in ProxyRequests \cup SiteRequests :
        log_count < MaxProxied /\ home(req)

SpecIP == InitFresh /\ [][NextIP]_vars

(***************************************************************************)
(* SpecDiary: the diary directory changing under /diaries.                 *)
(***************************************************************************)
NextDiary ==
    \/ \E req \in SiteRequests : diaries_page(req)
    \/ \E name \in DiaryNames, f \in Optional(DiaryTexts) : EnvPutDiary(name, f)
    \/ \E name \in DiaryNames : EnvRemoveDiary(name)
    \/ EnvRemoveDiaryDir
    \/ Startup

SpecDiary == InitFresh /\ [][NextDiary]_vars

(***************************************************************************)
(* SpecInterleaved: requests to /api/views whose file operations           *)
(* interleave, as under a threaded or multi-process server.  The steps are *)
(* the system calls of get_and_increment_views: open, read, write (the     *)
(* buffered text reaches the file when truncate flushes it), truncate.     *)
(***************************************************************************)
\* open(VIEWS_FILE, "r+")
views_open(w) ==
    /\ CanServe
    /\ pc[w] = "idle"
    /\ pc' = [pc EXCEPT ![w] = IF views_file = None THEN "except" ELSE "opened"]
    /\ UNCHANGED <<files, log_count, log_new, resp, data, history>>

\* data = json.load(f); data["total_views"] += 1
views_load(w) ==
    /\ pc[w] = "opened"
    /\ LET doc == JsonLoadViews(views_file[1])
       IN  IF Incrementable(doc)
           THEN /\ data' = [data EXCEPT ![w] = IncrementViews(doc.n)]
                /\ pc' = [pc EXCEPT ![w] = "loaded"]
           ELSE /\ pc' = [pc EXCEPT ![w] = "except"]
                /\ UNCHANGED data
    /\ UNCHANGED <<files, log_count, log_new, resp, history>>

\* f.seek(0); json.dump(data, f)
views_dump(w) ==
    /\ pc[w] = "loaded"
    /\ views_file' = Some(WriteAtStart(views_file[1], JsonDumpViews(data[w])))
    /\ pc' = [pc EXCEPT ![w] = "dumped"]
    /\ UNCHANGED <<honour_file, goodbyes_file, diary_dir, log_count, log_new,
                   resp, data, history>>

\* f.truncate(); the with block closes the file
views_truncate(w) ==
    /\ pc[w] = "dumped"
    /\ views_file' = Some(TruncateAt(views_file[1], Len(JsonDumpViews(data[w]))))
    /\ pc' = [pc EXCEPT ![w] = "return"]
    /\ UNCHANGED <<honour_file, goodbyes_file, diary_dir, log_count, log_new,
                   resp, data, history>>

\* except Exception: logger.error(...); return -1
views_except(w) ==
    /\ pc[w] = "except"
    /\ data' = [data EXCEPT ![w] = -1]
    /\ pc' = [pc EXCEPT ![w] = "return"]
    /\ log_new' = <<ErrorLine("Error updating views")>>
    /\ log_count' = log_count + 1
    /\ UNCHANGED <<files, resp, history>>

\* back in views_api: log_action(...); return jsonify(...)
views_respond(w, req) ==
    /\ pc[w] = "return"
    /\ Respond(Json("/api/views", data[w]), <<InfoLine("Viewed /api/views", req)>>)
    /\ pc' = [pc EXCEPT ![w] = "idle"]
    /\ data' = [data EXCEPT ![w] = 0]
    /\ UNCHANGED <<files, history>>

InitInterleaved ==
    /\ InitBase
    /\ fresh = FALSE
    /\ \E c \in { JsonDumpViews(0), JsonDumpViews(8), "{}" } : views_file = Some(c)

NextInterleaved ==
    \E w \in Workers :
        \/ views_open(w)
        \/ views_load(w)
        \/ views_dump(w)
        \/ views_truncate(w)
        \/ views_except(w)
        \/ \E req \in SiteRequests : views_respond(w, req)

SpecInterleaved == InitInterleaved /\ [][NextInterleaved]_vars

(***************************************************************************)
(* Properties.                                                             *)
(***************************************************************************)
\* A step in which a handler answered a request for `path`.
Served(path) == log_count' # log_count /\ resp'.path = path

\* The line log_action wrote last, when the latest handler wrote one.
Logged == log_new # <<>> /\ log_new[Len(log_new)].level = "INFO"
LastLine == log_new[Len(log_new)]

\* The least element of a set of positions; 0 when there is none.
FirstOf(positions) ==
    IF positions = {} THEN 0
    ELSE CHOOSE i \in positions : \A j \in positions : i <= j

\* Private-range in the sense of RFC 1918, read off the leading octets:
\* 10.x, 172.16.x - 172.31.x, 192.168.x.
IsPrivateRange(ip) ==
    \/ StartsWith(ip, "10.")
    \/ StartsWith(ip, "192.168.")
    \/ \E n \in 16..31 : StartsWith(ip, "172." \o ToDecimal(n) \o ".")

\* Starts with one of the three strings the code tests for.
IsPrefixed(ip) ==
    StartsWith(ip, "10.") \/ StartsWith(ip, "172.") \/ StartsWith(ip, "192.168.")

----------------------------------------------------------------------------
\* C1: served one at a time from a freshly initialized counter file, the
\* k-th hit of /api/views returns k and the file then holds exactly
\* {"total_views": k}: the stored value is the number of hits that did not
\* return -1.
C1_SerializedHitsCount ==
    /\ [](fresh => views_file = Some(JsonDumpViews(ok_hits)))
    /\ [][ (fresh /\ Served("/api/views")) =>
              /\ ok_hits' = ok_hits + 1
              /\ resp'.views = Some(ok_hits')
              /\ resp'.status = 200 ]_vars

C1_Witness ==
    /\ fresh
    /\ ok_hits = 3
    /\ resp = Json("/api/views", 3)
    /\ views_file = Some("{\"total_views\": 3}")

----------------------------------------------------------------------------
\* C2 as claimed: under any interleaving of the read and write-back steps of
\* requests to /api/views, the stored total_views never becomes smaller.
C2_NeverDecreases ==
    [][ (StoredViews(views_file) >= 0 /\ StoredViews(views_file') >= 0) =>
            StoredViews(views_file') >= StoredViews(views_file) ]_vars

\* C2 amended: the stored value changes only by a write-back, which stores
\* the value its request read plus one; a write-back made while the file
\* still holds the value its request read raises the stored value by
\* exactly one, so only a write-back that is stale can lower it.
C2_OnlyStaleWriteBackLowers ==
    [][ /\ \A w \in Workers :
              (pc[w] = "loaded" /\ pc'[w] = "dumped"
                    /\ StoredViews(views_file) + 1 = data[w]) =>
                  StoredViews(views_file') = StoredViews(views_file) + 1
        /\ (StoredViews(views_file) >= 0 /\ StoredViews(views_file') >= 0
                /\ StoredViews(views_file') # StoredViews(views_file)) =>
              \E w \in Workers :
                  /\ pc[w] = "loaded" /\ pc'[w] = "dumped"
                  /\ StoredViews(views_file') = data[w]
                  /\ (data[w] < StoredViews(views_file) =>
                          StoredViews(views_file) + 1 # data[w]) ]_vars

\* A write-back has just put 1 into a file whose counter had reached 2.
C2_Witness ==
    \E w \in Workers :
        /\ pc[w] = "return"
        /\ data[w] = 1
        /\ views_file = Some(JsonDumpViews(1))
        /\ resp = Json("/api/views", 2)

----------------------------------------------------------------------------
UnusableViews(file) ==
    \/ file = None
    \/ file[1] \in { "", "not json", "{}", "[]", "{\"total_views\": null}" }

\* C3: when the counter file is missing, unparseable or without a usable
\* total_views, a hit of /api/views answers 200 with total_views -1, logs
\* the error and then its action line, and leaves the file as it was.
C3_FailureSentinel ==
    [][ (Served("/api/views") /\ UnusableViews(views_file)) =>
            /\ resp'.status = 200
            /\ resp'.kind = "json"
            /\ resp'.views = Some(-1)
            /\ Len(log_new') = 2
            /\ log_new'[1].level = "ERROR"
            /\ log_new'[2].level = "INFO"
            /\ log_new'[2].action = "Viewed /api/views"
            /\ views_file' = views_file ]_vars

C3_Witness ==
    /\ views_file = None
    /\ resp = Json("/api/views", -1)
    /\ Len(log_new) = 2
    /\ log_count >= 3

----------------------------------------------------------------------------
\* C4 as claimed: the CF-Connecting-IP value whenever the header is present;
\* otherwise an entry of the forwarded-for chain; the peer address when
\* there is no proxy header at all.
C4_AsClaimed ==
    Logged =>
        /\ LastLine.cf_ip # None => LastLine.real_ip = LastLine.cf_ip
        /\ (LastLine.cf_ip = None /\ LastLine.xff # None) =>
              \E i \in 1..Len(Split(LastLine.xff[1], ",")) :
                  LastLine.real_ip = Some(Strip(Split(LastLine.xff[1], ",")[i]))
        /\ (LastLine.cf_ip = None /\ LastLine.xff = None) =>
              LastLine.real_ip = LastLine.remote

\* C4 amended: strict precedence among the signals that are non-empty: the
\* CF-Connecting-IP value when present and non-empty; otherwise the address
\* the forwarded-for chain yields, when it yields a non-empty one; otherwise
\* the peer address, which is what a request with no proxy header logs.
C4_Precedence ==
    Logged =>
        LET cf == LastLine.cf_ip
            public == PublicIp(IpChain(LastLine.xff))
            hasCf == cf # None /\ cf[1] # ""
            hasPublic == public # None /\ public[1] # ""
        IN  /\ hasCf => LastLine.real_ip = cf
            /\ (~hasCf /\ hasPublic) => LastLine.real_ip = public
            /\ (~hasCf /\ ~hasPublic) => LastLine.real_ip = LastLine.remote
            /\ (cf = None /\ LastLine.xff = None) =>
                  LastLine.real_ip = LastLine.remote

C4_Witness ==
    /\ Logged
    /\ LastLine.cf_ip = Some("198.51.100.9")
    /\ LastLine.xff = Some("10.0.0.5, 8.8.8.8")
    /\ LastLine.real_ip = Some("198.51.100.9")

----------------------------------------------------------------------------
\* C5 as claimed: without an edge-proxy header the resolved IP is the first
\* trimmed entry outside 10.x, 172.16-31.x and 192.168.x, and the peer
\* address only when every entry is inside those ranges.
C5_AsClaimed ==
    (Logged /\ LastLine.cf_ip = None /\ LastLine.xff # None) =>
        LET chain == Split(LastLine.xff[1], ",")
            first == FirstOf({ i \in 1..Len(chain) : ~IsPrivateRange(Strip(chain[i])) })
        IN  IF first = 0
            THEN LastLine.real_ip = LastLine.remote
            ELSE LastLine.real_ip = Some(Strip(chain[first]))

\* C5 amended: the test is a plain string-prefix test ("10.", "172.",
\* "192.168.", so every 172.x entry is skipped), and the first entry that
\* passes it is used only if it is not empty; the peer address is logged
\* when the header is empty, when every entry has such a prefix, or when
\* the first entry without one is empty.
C5_FirstUnprefixedEntry ==
    (Logged /\ LastLine.cf_ip = None /\ LastLine.xff # None) =>
        LET chain == IF LastLine.xff[1] = "" THEN <<>>
                     ELSE Split(LastLine.xff[1], ",")
            first == FirstOf({ i \in 1..Len(chain) : ~IsPrefixed(Strip(chain[i])) })
        IN  IF first = 0 THEN LastLine.real_ip = LastLine.remote
            ELSE IF Strip(chain[first]) = "" THEN LastLine.real_ip = LastLine.remote
            ELSE LastLine.real_ip = Some(Strip(chain[first]))

C5_Witness ==
    /\ Logged
    /\ LastLine.cf_ip = None
    /\ LastLine.xff = Some("10.0.0.5, 8.8.8.8")
    /\ LastLine.real_ip = Some("8.8.8.8")

----------------------------------------------------------------------------
\* C6: every request for a path that matches no route is answered with a
\* redirect to "/", never a 404 body, appends exactly one log line, tagged
\* "404 Redirect", and leaves the view counter file unchanged.
C6_UnknownPathRedirects ==
    [][ (log_count' # log_count
            /\ resp'.path \notin { "/", "/thankyou", "/why", "/honour",
                                   "/diaries", "/goodbyes", "/api/views",
                                   "/parkour", "/weekly", "/projects" }) =>
            /\ resp'.status = 302
            /\ resp'.kind = "redirect"
            /\ resp'.location = "/"
            /\ log_count' = log_count + 1
            /\ Len(log_new') = 1
            /\ log_new'[1].level = "INFO"
            /\ log_new'[1].action = "404 Redirect"
            /\ views_file' = views_file ]_vars

C6_Witness ==
    /\ resp.path = "/thankyou/"
    /\ resp.status = 302
    /\ resp.location = "/"
    /\ log_new # <<>>
    /\ log_new[1].action = "404 Redirect"
    /\ StoredViews(views_file) = 2

----------------------------------------------------------------------------
\* C7 as claimed: /diaries lists exactly the files whose name ends in ".md",
\* one entry each, in descending order of filename, each titled with its
\* filename less the trailing ".md".
C7_DiaryListing ==
    [][ (Served("/diaries") /\ resp'.status = 200) =>
            LET md == { n \in DOMAIN diary_dir[1] : EndsWith(n, ".md") }
                \* the name with exactly i-1 names of md above it
                NameAt(i) ==
                    CHOOSE n \in md :
                        Cardinality({ m \in md : StrLess(n, m) }) = i - 1
            IN  /\ Len(resp'.entries) = Cardinality(md)
                /\ \A i \in 1..Len(resp'.entries) :
                      resp'.entries[i].title
                          = SubSeq(NameAt(i), 1, Len(NameAt(i)) - Len(".md")) ]_vars

\* The parts of C7 that the code meets: which files are listed, and their
\* order.  A title is compared only up to its file: the title of NameAt(i)
\* as the code derives it.
C7_FilterAndOrder ==
    [][ (Served("/diaries") /\ resp'.status = 200) =>
            LET md == { n \in DOMAIN diary_dir[1] : EndsWith(n, ".md") }
                NameAt(i) ==
                    CHOOSE n \in md :
                        Cardinality({ m \in md : StrLess(n, m) }) = i - 1
            IN  /\ Len(resp'.entries) = Cardinality(md)
                /\ \A i \in 1..Len(resp'.entries) :
                      resp'.entries[i].title = Replace(NameAt(i), ".md", "") ]_vars

----------------------------------------------------------------------------
BadEntries(file) == file = None \/ file[1] \in { "", "{\"name\": " }

\* C8: when honour.json or goodbyes.json is missing or corrupt, the page is
\* still answered 200 with an empty entry list, the failure is logged as an
\* error and the route's action line is written after it.
C8_DataFileFailureDegrades ==
    [][ /\ (Served("/honour") /\ BadEntries(honour_file)) =>
              /\ resp' = Html("/honour", "honour.html", <<>>)
              /\ resp'.status = 200
              /\ Len(log_new') = 2
              /\ log_new'[1].level = "ERROR"
              /\ log_new'[2].level = "INFO"
              /\ log_new'[2].action = "Viewed Honour Wall"
        /\ (Served("/goodbyes") /\ BadEntries(goodbyes_file)) =>
              /\ resp' = Html("/goodbyes", "goodbyes.html", <<>>)
              /\ resp'.status = 200
              /\ Len(log_new') = 2
              /\ log_new'[1].level = "ERROR"
              /\ log_new'[2].level = "INFO"
              /\ log_new'[2].action = "Viewed Goodbyes Page" ]_vars

C8_Witness ==
    /\ honour_file = None
    /\ resp.path = "/honour"
    /\ resp.status = 200
    /\ resp.entries = <<>>
    /\ Len(log_new) = 2
    /\ log_new[1].level = "ERROR"

----------------------------------------------------------------------------
\* The directory cannot be listed, or a file that would be listed cannot be
\* read.
DiaryFails(dir) ==
    \/ dir = None
    \/ \E n \in DOMAIN dir[1] : EndsWith(n, ".md") /\ dir[1][n] = None

\* C9: a failure to enumerate the diary directory or to read any one diary
\* file aborts the listing: the answer is 500 with no entries, an error line
\* is logged and no action line is written.
C9_DiaryFailureAborts ==
    [][ (Served("/diaries") /\ DiaryFails(diary_dir)) =>
            /\ resp'.status = 500
            /\ resp'.entries = <<>>
            /\ Len(log_new') = 1
            /\ log_new'[1].level = "ERROR"
            /\ \A i \in 1..Len(log_new') : log_new'[i].level # "INFO" ]_vars

\* The file read first (the greater name) is readable, the next is not.
C9_Witness ==
    /\ diary_dir # None
    /\ DOMAIN diary_dir[1] = { "2024-01-01.md", "2024-02-01.md" }
    /\ diary_dir[1]["2024-02-01.md"] # None
    /\ diary_dir[1]["2024-01-01.md"] = None
    /\ resp.path = "/diaries"
    /\ resp.status = 500
    /\ log_new # <<>>
    /\ log_new[1].level = "ERROR"

----------------------------------------------------------------------------
\* C10: only /api/views changes the counter file: every other route and the
\* 404 handler leave it as it is, and startup writes {"total_views": 0}
\* only when the file is absent and otherwise keeps the file.
C10_CounterFrame ==
    [][ /\ (log_count' # log_count /\ resp'.path # "/api/views") =>
              views_file' = views_file
        /\ Startup =>
              views_file' = IF views_file = None
                            THEN Some("{\"total_views\": 0}")
                            ELSE views_file ]_vars

C10_Witness ==
    /\ fresh
    /\ ok_hits = 2
    /\ views_file = Some("{\"total_views\": 2}")
    /\ resp.path = "/goodbyes"

====
